---- MODULE Spec2Model ----
(***************************************************************************)
(* A model of ll-parsing (src/src/index.ts): the stack-driven LL parse     *)
(* engine createLLParser(rules, initStack).parse(lexed, result, options)   *)
(* and the character lexer createSimpleLexer(config)(stream).              *)
(*                                                                         *)
(* Two state machines share the module.  ParserSpec runs parse over a      *)
(* lexed sequence, one action per step of its loops.  LexerSpec runs the   *)
(* lexer's generator over a stream that arrives character by character     *)
(* and chunk by chunk.  Each specification leaves the other machine's      *)
(* variables alone.                                                        *)
(*                                                                         *)
(* JavaScript values: a string on the parse stack is [type |-> "string"],  *)
(* a symbol is [type |-> "symbol"], undefined is [type |-> "undefined"],   *)
(* a ParseError is a record with the field parseErrorSym.  A text of the   *)
(* lexer is a sequence of one-character strings.                           *)
(***************************************************************************)
EXTENDS Integers, Sequences, FiniteSets, TLC

\* ------------------------------------------------------------------ bounds

\* The longest lexed sequence handed to parse.
MaxItems == 3
\* The longest right-hand side of a rule S -> t1 ... tn of terminals.
MaxRhs == 2
\* The lexed items are numbered as the lexer numbers the line that follows
\* Line0 empty lines: index = Line0 + k, line = Line0, inlineIndex = k.
Line0 == 1

\* ------------------------------------------------------------ JS values

Undefined == [type |-> "undefined"]

Str(s) == [type |-> "string", value |-> s]

Sym(d) == [type |-> "symbol", description |-> d]

TypeOf(x) == IF "type" \in DOMAIN x THEN x.type ELSE "object"

S == Sym("S")
A == Sym("A")
B == Sym("B")

\* ------------------------------------------------------------ ParseError

parseError(x) ==
  [parseErrorSym |-> TRUE, message |-> x.message, token |-> x.token,
   index |-> x.index, line |-> x.line, inlineIndex |-> x.inlineIndex]

isParseError(x) == "parseErrorSym" \in DOMAIN x /\ x.parseErrorSym

\* --------------------------------------------------------- state: parser

VARIABLES
  rules,      \* the rule table given to createLLParser
  lexed,      \* the lexed sequence given to parse
  options,    \* the options given to parse, Undefined when omitted
  result,     \* the caller's accumulator, mutated by the rules
  stack,      \* parse's local stack
  errors,     \* parse's local errors
  lastIndex,  \* parse's local lastIndex
  pulled,     \* how many items the for-await loop has pulled from lexed
  pc,         \* where parse stands: idle, for, while, returned, thrown
  ret,        \* the record parse resolved with, Undefined before
  thrown,     \* the Error parse rejected with, Undefined before
  console,    \* what console.error has been given during this call
  prev        \* the outcome of the previous parse call on this parser

parserVars == <<rules, lexed, options, result, stack, errors, lastIndex,
                pulled, pc, ret, thrown, console, prev>>

\* ---------------------------------------------------------- state: lexer

VARIABLES
  config,       \* the argument of createSimpleLexer
  text,         \* the characters the stream has delivered so far
  nchunks,      \* how many chunks the stream has delivered so far
  i,            \* the inner loop's i: characters read of the current chunk
  lpc,          \* where the generator stands: stream, chunk, done
  token,        \* the generator's locals, as named in the source
  isQuoting,
  isEscaping,
  index,
  line,
  inlineIndex,
  out           \* the items yielded so far

lexerVars == <<config, text, nchunks, i, lpc, token, isQuoting, isEscaping,
               index, line, inlineIndex, out>>

vars == <<parserVars, lexerVars>>

\* ---------------------------------------------------- grammars and inputs

Terminals == {"a", "b"}

Tokens == {"a", "b", "x"}

SeqsUpTo(X, n) == UNION {[1..k -> X] : k \in 0..n}

\* The rule tables parse is run with.  terms: S -> rhs, a fixed sequence of
\* terminals.  nested: S -> A B, A -> "a", B -> "b".  predict: S -> "a" S
\* on the token "a" and S -> (empty) otherwise.  embedded: S -> "a" S on
\* "a", and otherwise a ParseError made by the rule, followed by S.
\* norule: S -> "a" A "b", and A has no rule.  leftrec: S -> "a" S on
\* "a" and S -> A otherwise, A -> S; its rules leave result alone.
RuleTables ==
  {[kind |-> "terms", rhs |-> w] : w \in SeqsUpTo(Terminals, MaxRhs)}
    \cup {[kind |-> k, rhs |-> <<>>] :
             k \in {"nested", "predict", "embedded", "norule", "leftrec"}}

\* A lookup that never comes back empty.
HasRuleAlways(table, sym) == TRUE

HasRule(table, sym) ==
  CASE table.kind = "nested" -> sym \in {S, A, B}
    [] table.kind = "leftrec" -> sym \in {S, A}
    [] OTHER -> sym = S

Rule(table, sym, tokens, position) ==
  CASE table.kind = "terms" -> [n \in 1..Len(table.rhs) |-> Str(table.rhs[n])]
    [] table.kind = "nested" ->
         IF sym = S THEN <<A, B>>
         ELSE IF sym = A THEN <<Str("a")>> ELSE <<Str("b")>>
    [] table.kind = "predict" ->
         IF tokens[1] = "a" THEN <<Str("a"), S>> ELSE <<>>
    [] table.kind = "embedded" ->
         IF tokens[1] = "a" THEN <<Str("a"), S>>
         ELSE <<parseError([message |-> "Unexpected '" \o tokens[1] \o "'.",
                            token |-> tokens[1], index |-> position.index,
                            line |-> position.line,
                            inlineIndex |-> position.inlineIndex]), S>>
    [] table.kind = "leftrec" ->
         IF sym = A THEN <<S>>
         ELSE IF tokens[1] = "a" THEN <<Str("a"), S>> ELSE <<A>>
    [] OTHER -> <<Str("a"), A, Str("b")>>

\* What a rule does to the shared result: it notes that it ran, and where.
RuleEffect(table, res, sym, tokens, position) ==
  IF table.kind = "leftrec" THEN res
  ELSE Append(res, [rule |-> sym.description, token |-> tokens[1],
                    index |-> position.index])

initStack == <<S>>

\* The k-th item of the lexed sequence whose tokens[0] are toks[1], toks[2], ...
LexedItem(toks, k) ==
  [tokens |-> <<toks[k]>>, index |-> Line0 + k, line |-> Line0, inlineIndex |-> k]

Lexeds == {[k \in 1..Len(toks) |-> LexedItem(toks, k)] : toks \in SeqsUpTo(Tokens, MaxItems)}

ParseOptions == {Undefined} \cup {[onError |-> p] : p \in {"stop", "throw", "continue"}}

\* -------------------------------------------------------------- parse

\* options = { onError: "stop" } when the argument is omitted.
OnError(opts) == IF opts = Undefined THEN "stop" ELSE opts.onError

\* The item the for-await loop holds, destructured.
item == lexed[pulled]

position == [index |-> item.index, line |-> item.line,
             inlineIndex |-> item.inlineIndex]

\* stack.shift(): the removed front, undefined on an empty stack.
Shifted(st) == IF st = <<>> THEN Undefined ELSE Head(st)

AfterShift(st) == IF st = <<>> THEN <<>> ELSE Tail(st)

\* The fragment unshifted entry by entry, which reverses it.
UnshiftReversed(st, fragment) ==
  [n \in 1..Len(fragment) |-> fragment[Len(fragment) + 1 - n]] \o st

\* The fragment pushed at the back of the stack.
UnshiftAtBack(st, fragment) == st \o fragment

\* stack.unshift(...fragment)
Unshift(st, fragment) == fragment \o st

MismatchMessage(tos, tokens) ==
  "Expected '" \o tos.value \o "' but got '" \o tokens[1] \o "'."

NoRuleMessage(tos) == "No rule for Symbol(" \o tos.description \o ")."

\* The record with lastIndex in place of the index handed in.
ReturnedLastIndex(st, errs, res, idx) ==
  [stack |-> st, errors |-> errs, result |-> res, index |-> lastIndex]

\* The record parse resolves with.
Returned(st, errs, res, idx) ==
  [stack |-> st, errors |-> errs, result |-> res, index |-> idx]

\* The state left by the previous call, kept when parse is called again.
Outcome == [pc |-> pc, ret |-> ret, thrown |-> thrown]

\* A rejection that drops the error's message.
ThrowGeneric(message) ==
  /\ console' = Append(console, errors)
  /\ thrown' = [message |-> "Parse error."]
  /\ pc' = "thrown"

\* catch (error) { console.error(errors); throw error; }
Throw(message) ==
  /\ console' = Append(console, errors)
  /\ thrown' = [message |-> message]
  /\ pc' = "thrown"

\* The policy with the shifted front still on the stack that stop returns.
ApplyPolicyReturnsUnshifted(error) ==
  IF OnError(options) = "stop"
  THEN /\ errors' = Append(errors, error)
       /\ ret' = Returned(stack, errors', result, item.index)
       /\ pc' = "returned"
       /\ UNCHANGED <<lastIndex, thrown, console>>
  ELSE IF OnError(options) = "throw"
  THEN /\ Throw(error.message)
       /\ UNCHANGED <<errors, lastIndex, ret>>
  ELSE /\ lastIndex' = item.index
       /\ pc' = "for"
       /\ UNCHANGED <<errors, ret, thrown, console>>

\* The policy with everything but throw handled as stop.
ApplyPolicyContinueStops(error) ==
  IF OnError(options) = "throw"
  THEN /\ Throw(error.message)
       /\ UNCHANGED <<errors, lastIndex, ret>>
  ELSE /\ errors' = Append(errors, error)
       /\ ret' = Returned(AfterShift(stack), errors', result, item.index)
       /\ pc' = "returned"
       /\ UNCHANGED <<lastIndex, thrown, console>>

\* The error policy, applied to a recoverable error once the stack front
\* has been shifted off: stop pushes the error and returns, throw rejects,
\* and anything else falls through to lastIndex = index.
ApplyPolicy(error) ==
  IF OnError(options) = "stop"
  THEN /\ errors' = Append(errors, error)
       /\ ret' = Returned(AfterShift(stack), errors', result, item.index)
       /\ pc' = "returned"
       /\ UNCHANGED <<lastIndex, thrown, console>>
  ELSE IF OnError(options) = "throw"
  THEN /\ Throw(error.message)
       /\ UNCHANGED <<errors, lastIndex, ret>>
  ELSE /\ lastIndex' = item.index
       /\ pc' = "for"
       /\ UNCHANGED <<errors, ret, thrown, console>>

\* A call that keeps the errors list of the call before.
ParseCallKeepsErrors ==
  /\ pc \in {"idle", "returned", "thrown"}
  /\ prev' = IF pc = "idle" THEN prev ELSE Outcome
  /\ stack' = initStack
  /\ lastIndex' = 0
  /\ pulled' = 0
  /\ result' = <<>>
  /\ ret' = Undefined
  /\ thrown' = Undefined
  /\ console' = <<>>
  /\ pc' = "for"
  /\ UNCHANGED <<rules, lexed, options, errors>>
  /\ UNCHANGED lexerVars

\* parse is called: const stack = initStack(); const errors = [];
\* let lastIndex = 0.  The caller hands in a fresh result.
ParseCall ==
  /\ pc \in {"idle", "returned", "thrown"}
  /\ prev' = IF pc = "idle" THEN prev ELSE Outcome
  /\ stack' = initStack
  /\ errors' = <<>>
  /\ lastIndex' = 0
  /\ pulled' = 0
  /\ result' = <<>>
  /\ ret' = Undefined
  /\ thrown' = Undefined
  /\ console' = <<>>
  /\ pc' = "for"
  /\ UNCHANGED <<rules, lexed, options>>
  /\ UNCHANGED lexerVars

\* for await (const { tokens, index, line, inlineIndex } of lexed)
ForAwaitNext ==
  /\ pc = "for"
  /\ pulled < Len(lexed)
  /\ pulled' = pulled + 1
  /\ pc' = "while"
  /\ UNCHANGED <<rules, lexed, options, result, stack, errors, lastIndex,
                 ret, thrown, console, prev>>
  /\ UNCHANGED lexerVars

\* The lexed sequence is exhausted: return with index: lastIndex.
ReturnExhausted ==
  /\ pc = "for"
  /\ pulled = Len(lexed)
  /\ ret' = Returned(stack, errors, result, lastIndex)
  /\ pc' = "returned"
  /\ UNCHANGED <<rules, lexed, options, result, stack, errors, lastIndex,
                 pulled, thrown, console, prev>>
  /\ UNCHANGED lexerVars

\* The expansion under an if in place of the while: one rule per item.
ExpandSymbolOnce ==
  /\ pc = "while"
  /\ TypeOf(Shifted(stack)) = "symbol"
  /\ HasRule(rules, Shifted(stack))
  /\ stack' = Unshift(AfterShift(stack),
                      Rule(rules, Shifted(stack), item.tokens, position))
  /\ result' = RuleEffect(rules, result, Shifted(stack), item.tokens, position)
  /\ lastIndex' = item.index
  /\ pc' = "for"
  /\ UNCHANGED <<rules, lexed, options, errors, pulled, ret, thrown, console,
                 prev>>
  /\ UNCHANGED lexerVars

\* One turn of the while loop: the shifted front is a symbol with a rule;
\* the rule runs on the item and its fragment is unshifted.
ExpandSymbol ==
  /\ pc = "while"
  /\ TypeOf(Shifted(stack)) = "symbol"
  /\ HasRule(rules, Shifted(stack))
  /\ stack' = Unshift(AfterShift(stack),
                      Rule(rules, Shifted(stack), item.tokens, position))
  /\ result' = RuleEffect(rules, result, Shifted(stack), item.tokens, position)
  /\ UNCHANGED <<rules, lexed, options, errors, lastIndex, pulled, pc, ret,
                 thrown, console, prev>>
  /\ UNCHANGED lexerVars

\* The shifted front is a symbol without a rule: throw new Error(...).
NoRule ==
  /\ pc = "while"
  /\ TypeOf(Shifted(stack)) = "symbol"
  /\ ~HasRule(rules, Shifted(stack))
  /\ stack' = AfterShift(stack)
  /\ Throw(NoRuleMessage(Shifted(stack)))
  /\ UNCHANGED <<rules, lexed, options, result, errors, lastIndex, pulled,
                 ret, prev>>
  /\ UNCHANGED lexerVars

\* An empty stack taken for an error: the item has nothing to match.
EmptyStackIsError ==
  /\ pc = "while"
  /\ stack = <<>>
  /\ ApplyPolicy(parseError([message |-> "Unexpected '" \o item.tokens[1] \o "'.",
                             index |-> item.index, line |-> item.line,
                             inlineIndex |-> item.inlineIndex,
                             token |-> item.tokens[1]]))
  /\ UNCHANGED <<rules, lexed, options, result, stack, pulled, prev>>
  /\ UNCHANGED lexerVars

\* An empty stack that skips the rest of the loop body, lastIndex included.
EmptyStackKeepsLastIndex ==
  /\ pc = "while"
  /\ stack = <<>>
  /\ pc' = "for"
  /\ UNCHANGED <<rules, lexed, options, result, stack, errors, lastIndex,
                 pulled, ret, thrown, console, prev>>
  /\ UNCHANGED lexerVars

\* The while loop ends on an empty stack: tos is undefined, neither a
\* string nor a ParseError, and only lastIndex = index runs.
EmptyStack ==
  /\ pc = "while"
  /\ stack = <<>>
  /\ lastIndex' = item.index
  /\ pc' = "for"
  /\ UNCHANGED <<rules, lexed, options, result, stack, errors, pulled, ret,
                 thrown, console, prev>>
  /\ UNCHANGED lexerVars

\* The while loop ends on a string equal to tokens[0].
MatchTerminal ==
  /\ pc = "while"
  /\ TypeOf(Shifted(stack)) = "string"
  /\ Shifted(stack).value = item.tokens[1]
  /\ stack' = AfterShift(stack)
  /\ lastIndex' = item.index
  /\ pc' = "for"
  /\ UNCHANGED <<rules, lexed, options, result, errors, pulled, ret, thrown,
                 console, prev>>
  /\ UNCHANGED lexerVars

\* The while loop ends on a string that differs from tokens[0].
MismatchTerminal ==
  /\ pc = "while"
  /\ TypeOf(Shifted(stack)) = "string"
  /\ Shifted(stack).value # item.tokens[1]
  /\ stack' = AfterShift(stack)
  /\ ApplyPolicy(parseError([message |-> MismatchMessage(Shifted(stack), item.tokens),
                             index |-> item.index, line |-> item.line,
                             inlineIndex |-> item.inlineIndex,
                             token |-> item.tokens[1]]))
  /\ UNCHANGED <<rules, lexed, options, result, pulled, prev>>
  /\ UNCHANGED lexerVars

\* The while loop ends on a ParseError that a rule put on the stack.
EmbeddedError ==
  /\ pc = "while"
  /\ stack # <<>>
  /\ isParseError(Shifted(stack))
  /\ stack' = AfterShift(stack)
  /\ ApplyPolicy(Shifted(stack))
  /\ UNCHANGED <<rules, lexed, options, result, pulled, prev>>
  /\ UNCHANGED lexerVars

ParserInit ==
  /\ rules \in RuleTables
  /\ lexed \in Lexeds
  /\ options \in ParseOptions
  /\ result = <<>>
  /\ stack = <<>>
  /\ errors = <<>>
  /\ lastIndex = 0
  /\ pulled = 0
  /\ pc = "idle"
  /\ ret = Undefined
  /\ thrown = Undefined
  /\ console = <<>>
  /\ prev = Undefined

ParserNext ==
  \/ ParseCall
  \/ ForAwaitNext
  \/ ReturnExhausted
  \/ ExpandSymbol
  \/ NoRule
  \/ EmptyStack
  \/ MatchTerminal
  \/ MismatchTerminal
  \/ EmbeddedError


\* --------------------------------------------------------------- lexer

\* The longest stream, in characters (the example inputs apart).
MaxLen == 3

\* A plain character, a separator, the quote, the default escape character
\* and the newline.
Chars == {"a", ",", "\"", "\\", "\n"}

\* The inputs the specification names: "ab"c and a\,b.
Examples == {<<"\"", "a", "b", "\"", "c">>, <<"a", "\\", ",", "b">>}

IsPrefix(t, e) == Len(t) <= Len(e) /\ \A k \in 1..Len(t) : t[k] = e[k]

\* The streams the model feeds the lexer.
Allowed(t) == Len(t) <= MaxLen \/ \E e \in Examples : IsPrefix(t, e)

\* A RegExp that is tested on one character: the characters it matches.
RegExp(matches) == [type |-> "regexp", matches |-> matches]

Test(regex, char) == char \in regex.matches

\* /^\r?\n$/ on a single character matches the line feed alone.
defaultNewlineRegex == RegExp({"\n"})

\* newlineRegex = newlineRegex || defaultNewlineRegex
NewlineRegex(cfg) ==
  IF cfg.newlineRegex = Undefined THEN defaultNewlineRegex ELSE cfg.newlineRegex

\* escapeChar || "\\": an escapeChar left out, like "", is falsy.
EscapeChar(cfg) == IF cfg.escapeChar = "" THEN "\\" ELSE cfg.escapeChar

Configs ==
  {[separatorRegex |-> RegExp(sep), newlineRegex |-> Undefined,
    useQuote |-> q, useEscape |-> e[1], escapeChar |-> e[2]] :
     sep \in {{","}, {",", " ", "\n"}}, q \in BOOLEAN,
     e \in {<<FALSE, "">>, <<TRUE, "">>, <<TRUE, "a">>}}

\* The generator's locals as one value.
Locals ==
  [token |-> token, isQuoting |-> isQuoting, isEscaping |-> isEscaping,
   index |-> index, line |-> line, inlineIndex |-> inlineIndex, out |-> out]

\* let token = ""; let isQuoting = false; ... let inlineIndex = 0;
InitLocals ==
  [token |-> <<>>, isQuoting |-> FALSE, isEscaping |-> FALSE,
   index |-> 0, line |-> 0, inlineIndex |-> 0, out |-> <<>>]

Yield(tok, idx, ln, inl) ==
  [tokens |-> <<tok>>, index |-> idx, line |-> ln, inlineIndex |-> inl]

\* The branches with the pending token flushed at a separator even when it
\* is empty.
BranchFlushesEmpty(cfg, st, char) ==
  IF cfg.useEscape /\ st.isEscaping
  THEN [st EXCEPT !.token = Append(@, char), !.isEscaping = FALSE]
  ELSE IF cfg.useEscape /\ char = EscapeChar(cfg)
  THEN [st EXCEPT !.isEscaping = TRUE]
  ELSE IF cfg.useQuote /\ st.isQuoting
  THEN IF char = "\""
       THEN [st EXCEPT !.isQuoting = FALSE, !.token = Append(@, "\"")]
       ELSE [st EXCEPT !.token = Append(@, char)]
  ELSE IF Test(cfg.separatorRegex, char)
  THEN [st EXCEPT
          !.out = Append(@, Yield(st.token, st.index - 1, st.line,
                                  st.inlineIndex - 1))
                    \o <<Yield(<<char>>, st.index, st.line, st.inlineIndex)>>,
          !.token = <<>>]
  ELSE [st EXCEPT !.token = Append(@, char)]

\* The branches with the separator test ahead of the escape tests.
BranchSeparatorFirst(cfg, st, char) ==
  IF Test(cfg.separatorRegex, char) /\ ~(cfg.useQuote /\ st.isQuoting)
  THEN [st EXCEPT
          !.out = (IF st.token # <<>>
                   THEN Append(@, Yield(st.token, st.index - 1, st.line,
                                        st.inlineIndex - 1))
                   ELSE @)
                    \o <<Yield(<<char>>, st.index, st.line, st.inlineIndex)>>,
          !.token = <<>>,
          !.isEscaping = FALSE]
  ELSE IF cfg.useEscape /\ st.isEscaping
  THEN [st EXCEPT !.token = Append(@, char), !.isEscaping = FALSE]
  ELSE IF cfg.useEscape /\ char = EscapeChar(cfg)
  THEN [st EXCEPT !.isEscaping = TRUE]
  ELSE IF cfg.useQuote /\ st.isQuoting /\ char = "\""
  THEN [st EXCEPT !.isQuoting = FALSE, !.token = Append(@, "\"")]
  ELSE [st EXCEPT !.token = Append(@, char)]

\* The body of the inner loop up to the newline test, after index++ and
\* inlineIndex++ (st holds the incremented counters).
Branch(cfg, st, char) ==
  IF cfg.useEscape /\ st.isEscaping
  THEN [st EXCEPT !.token = Append(@, char), !.isEscaping = FALSE]
  ELSE IF cfg.useEscape /\ char = EscapeChar(cfg)
  THEN [st EXCEPT !.isEscaping = TRUE]
  ELSE IF cfg.useQuote /\ st.isQuoting
  THEN IF char = "\""
       THEN [st EXCEPT !.isQuoting = FALSE, !.token = Append(@, "\"")]
       ELSE [st EXCEPT !.token = Append(@, char)]
  ELSE IF Test(cfg.separatorRegex, char)
  THEN [st EXCEPT
          !.out = (IF st.token # <<>>
                   THEN Append(@, Yield(st.token, st.index - 1, st.line,
                                        st.inlineIndex - 1))
                   ELSE @)
                    \o <<Yield(<<char>>, st.index, st.line, st.inlineIndex)>>,
          !.token = <<>>]
  ELSE [st EXCEPT !.token = Append(@, char)]

\* The newline test without the reset of inlineIndex.
NewlineTestNoReset(cfg, st, char) ==
  IF Test(NewlineRegex(cfg), char)
  THEN [st EXCEPT !.line = @ + 1]
  ELSE st

\* if (newlineRegex.test(char)) { line++; inlineIndex = 0; }
NewlineTest(cfg, st, char) ==
  IF Test(NewlineRegex(cfg), char)
  THEN [st EXCEPT !.line = @ + 1, !.inlineIndex = 0]
  ELSE st

\* One turn of the inner loop on the character char.
LexChar(cfg, st, char) ==
  NewlineTest(cfg,
              Branch(cfg, [st EXCEPT !.index = @ + 1, !.inlineIndex = @ + 1],
                     char),
              char)

\* After the inner loop: if (token !== "") yield { tokens: [token], ... }.
\* The token is left as it is.
ChunkFlush(st) ==
  IF st.token # <<>>
  THEN [st EXCEPT !.out = Append(@, Yield(st.token, st.index, st.line,
                                          st.inlineIndex))]
  ELSE st

SetLocals(st) ==
  /\ token' = st.token
  /\ isQuoting' = st.isQuoting
  /\ isEscaping' = st.isEscaping
  /\ index' = st.index
  /\ line' = st.line
  /\ inlineIndex' = st.inlineIndex
  /\ out' = st.out

\* for await (const buf of stream): the stream delivers a chunk.
NextChunk ==
  /\ lpc = "stream"
  /\ \E c \in Chars \cup {"b", "c"} : Allowed(Append(text, c))
  /\ lpc' = "chunk"
  /\ i' = 0
  /\ nchunks' = nchunks + 1
  /\ UNCHANGED <<config, text, token, isQuoting, isEscaping, index, line,
                 inlineIndex, out>>
  /\ UNCHANGED parserVars

\* The inner loop reads the chunk's next character.
ReadChar ==
  /\ lpc = "chunk"
  /\ \E c \in Chars \cup {"b", "c"} :
       /\ Allowed(Append(text, c))
       /\ text' = Append(text, c)
       /\ SetLocals(LexChar(config, Locals, c))
  /\ i' = i + 1
  /\ UNCHANGED <<config, nchunks, lpc>>
  /\ UNCHANGED parserVars

\* The inner loop ends (i = imax, on a chunk of at least one character).
EndOfChunk ==
  /\ lpc = "chunk"
  /\ i > 0
  /\ SetLocals(ChunkFlush(Locals))
  /\ lpc' = "stream"
  /\ UNCHANGED <<config, text, nchunks, i>>
  /\ UNCHANGED parserVars

\* The stream ends and the generator returns.
EndOfStream ==
  /\ lpc = "stream"
  /\ lpc' = "done"
  /\ UNCHANGED <<config, text, nchunks, i, token, isQuoting, isEscaping,
                 index, line, inlineIndex, out>>
  /\ UNCHANGED parserVars

LexerInit ==
  /\ config \in Configs
  /\ text = <<>>
  /\ nchunks = 0
  /\ i = 0
  /\ lpc = "stream"
  /\ token = InitLocals.token
  /\ isQuoting = InitLocals.isQuoting
  /\ isEscaping = InitLocals.isEscaping
  /\ index = InitLocals.index
  /\ line = InitLocals.line
  /\ inlineIndex = InitLocals.inlineIndex
  /\ out = InitLocals.out

LexerNext ==
  \/ NextChunk
  \/ ReadChar
  \/ EndOfChunk
  \/ EndOfStream

\* ------------------------------------------------------ specifications

\* The parser stands idle while the lexer runs, and the other way round.
ParserIdle ==
  /\ rules = [kind |-> "terms", rhs |-> <<>>]
  /\ lexed = <<>>
  /\ options = Undefined
  /\ result = <<>>
  /\ stack = <<>>
  /\ errors = <<>>
  /\ lastIndex = 0
  /\ pulled = 0
  /\ pc = "idle"
  /\ ret = Undefined
  /\ thrown = Undefined
  /\ console = <<>>
  /\ prev = Undefined

LexerIdle ==
  /\ config = [separatorRegex |-> RegExp({}), newlineRegex |-> Undefined,
               useQuote |-> FALSE, useEscape |-> FALSE, escapeChar |-> ""]
  /\ text = <<>>
  /\ nchunks = 0
  /\ i = 0
  /\ lpc = "idle"
  /\ token = <<>>
  /\ isQuoting = FALSE
  /\ isEscaping = FALSE
  /\ index = 0
  /\ line = 0
  /\ inlineIndex = 0
  /\ out = <<>>

\* createLLParser has been called; the lexer is not in use.
ParserStart == ParserInit /\ LexerIdle

\* createSimpleLexer's generator has been called; the parser is not in use.
LexerStart == LexerInit /\ ParserIdle

ParserSpec == ParserStart /\ [][ParserNext]_vars

\* A call of parse, once made, is run by the engine: its loops take their
\* turns.  When parse is called is the caller's choice.
ParseRuns ==
  \/ ForAwaitNext
  \/ ReturnExhausted
  \/ ExpandSymbol
  \/ NoRule
  \/ EmptyStack
  \/ MatchTerminal
  \/ MismatchTerminal
  \/ EmbeddedError

ParserFairSpec == ParserSpec /\ WF_vars(ParseRuns)

LexerSpec == LexerStart /\ [][LexerNext]_vars

\* ------------------------------------------------- properties of parse

\* The tokens[0] of the lexed sequence, in order.
LexedTokens == [k \in 1..Len(lexed) |-> lexed[k].tokens[1]]

\* The front of the stack is a terminal that differs from the item held.
MeetsMismatch ==
  /\ pc = "while"
  /\ stack # <<>>
  /\ "value" \in DOMAIN Head(stack)
  /\ Head(stack).value # lexed[pulled].tokens[1]

\* The front of the stack is a ParseError that a rule put there.
MeetsEmbedded ==
  /\ pc = "while"
  /\ stack # <<>>
  /\ "parseErrorSym" \in DOMAIN Head(stack)

\* The front of the stack is a symbol the rule table has no entry for.
MeetsMissingRule ==
  /\ pc = "while"
  /\ stack # <<>>
  /\ "description" \in DOMAIN Head(stack)
  /\ \/ rules.kind = "nested" /\ Head(stack).description \notin {"S", "A", "B"}
     \/ rules.kind = "leftrec" /\ Head(stack).description \notin {"S", "A"}
     \/ rules.kind \notin {"nested", "leftrec"} /\ Head(stack).description # "S"

\* The recoverable error met in a state of MeetsMismatch or MeetsEmbedded.
MetError ==
  IF MeetsEmbedded THEN Head(stack)
  ELSE [parseErrorSym |-> TRUE,
        message |-> "Expected '" \o Head(stack).value \o "' but got '"
                      \o lexed[pulled].tokens[1] \o "'.",
        token |-> lexed[pulled].tokens[1],
        index |-> lexed[pulled].index,
        line |-> lexed[pulled].line,
        inlineIndex |-> lexed[pulled].inlineIndex]

\* Once parse has returned or thrown, nothing happens but a new call.
OnlyANewCallFollows ==
  pc \in {"returned", "thrown"} =>
    /\ pc' = "for"
    /\ pulled' = 0
    /\ ret' = Undefined
    /\ thrown' = Undefined

\* C1: under onError "continue", every recoverable error met (a terminal
\* mismatch or an embedded ParseError shifted off the stack) is appended to
\* the errors list, in order of occurrence.
C1_ContinueRecordsEveryError ==
  [][(OnError(options) = "continue" /\ (MeetsMismatch \/ MeetsEmbedded))
       => errors' = Append(errors, MetError)]_parserVars

\* C2: under onError "stop", also when the options are omitted, the first
\* mismatch or embedded ParseError makes parse return at once with exactly
\* that error, the index of the item that triggered it, the stack as it
\* stands, and without pulling an item or running a rule; a mismatch's error
\* reads "Expected 'X' but got 'Y'." and carries the item's position.
C2_StopReturnsAtOnce ==
  [][/\ (OnError(options) = "stop" /\ (MeetsMismatch \/ MeetsEmbedded))
          => /\ errors = <<>>
             /\ pc' = "returned"
             /\ ret' = [stack |-> Tail(stack), errors |-> <<MetError>>,
                        result |-> result, index |-> lexed[pulled].index]
             /\ thrown' = Undefined
             /\ pulled' = pulled
             /\ result' = result
     /\ OnlyANewCallFollows]_parserVars

C2_Witness ==
  /\ pc = "returned"
  /\ options = Undefined
  /\ Len(ret.errors) = 1
  /\ ret.errors[1].message = "Expected 'b' but got 'x'."
  /\ ret.index = lexed[pulled].index
  /\ pulled < Len(lexed)

\* C3: under onError "throw", the first mismatch or embedded ParseError
\* makes parse reject with the error's message; no record is returned in
\* that run and no later item is processed.
C3_ThrowRejectsWithMessage ==
  [][/\ (OnError(options) = "throw" /\ (MeetsMismatch \/ MeetsEmbedded))
          => /\ pc' = "thrown"
             /\ thrown' = [message |-> MetError.message]
             /\ ret' = Undefined
             /\ pulled' = pulled
             /\ result' = result
     /\ OnlyANewCallFollows]_parserVars

C3_Witness ==
  /\ pc = "thrown"
  /\ OnError(options) = "throw"
  /\ thrown.message = "Unexpected 'x'."
  /\ ret = Undefined
  /\ pulled < Len(lexed)

\* C4: a symbol shifted off the stack that has no entry in the rule table
\* makes parse fail, without returning and without recording a ParseError,
\* whatever the onError policy.
C4_MissingRuleIsFatal ==
  [][MeetsMissingRule
       => /\ pc' = "thrown"
          /\ thrown' = [message |-> "No rule for Symbol("
                                      \o Head(stack).description \o ")."]
          /\ ret' = Undefined
          /\ errors' = errors
          /\ pulled' = pulled
          /\ result' = result]_parserVars

C4_Witness ==
  /\ pc = "thrown"
  /\ OnError(options) = "continue"
  /\ thrown.message = "No rule for Symbol(A)."
  /\ errors = <<>>
  /\ pulled < Len(lexed)

\* C5 as stated: when the start symbol's rule gives a sequence of terminals
\* and the lexed tokens are exactly that sequence, parse returns an empty
\* stack and no errors, under every policy.
C5_ExactInputLeavesNothing ==
  (rules.kind = "terms" /\ LexedTokens = rules.rhs)
    => /\ pc # "thrown"
       /\ pc = "returned" => (ret.stack = <<>> /\ ret.errors = <<>>)

\* C5, amended: the same for a sequence of at least one terminal.
C5_ExactNonEmptyInputLeavesNothing ==
  (rules.kind = "terms" /\ rules.rhs # <<>> /\ LexedTokens = rules.rhs)
    => /\ pc # "thrown"
       /\ pc = "returned" => (ret.stack = <<>> /\ ret.errors = <<>>)

C5_Witness ==
  /\ pc = "returned"
  /\ rules.kind = "terms"
  /\ rules.rhs = <<"a", "b">>
  /\ LexedTokens = rules.rhs
  /\ OnError(options) = "continue"
  /\ ret.stack = <<>>
  /\ ret.errors = <<>>

\* C12: a second parse call on the same parser, with the same lexed input, a
\* fresh stack from initStack and a fresh result, ends as the call before it
\* did: the same returned stack, errors and index, or the same failure.
C12_CallsAreIndependent ==
  (pc \in {"returned", "thrown"} /\ prev # Undefined)
    => /\ pc = prev.pc
       /\ thrown = prev.thrown
       /\ ret = prev.ret

\* The second call has stopped on a mismatch, as the first did.
C12_Witness ==
  /\ pc = "returned"
  /\ prev # Undefined
  /\ prev.pc = "returned"
  /\ Len(prev.ret.errors) = 1
  /\ Len(ret.errors) = 1
  /\ ret.stack = prev.ret.stack

\* C13: when the lexed sequence is exhausted, parse returns the stack as it
\* stands, empty or not, records no error for what is left on it, and gives
\* the index of the last item (0 for an empty sequence); the errors are
\* empty unless onError is "continue".
C13_ExhaustionReturnsAsIs ==
  [][(pc = "for" /\ pulled = Len(lexed))
       => /\ pc' = "returned"
          /\ thrown' = Undefined
          /\ ret'.stack = stack
          /\ ret'.errors = errors
          /\ ret'.result = result
          /\ ret'.index = (IF lexed = <<>> THEN 0 ELSE lexed[Len(lexed)].index)
          /\ (OnError(options) # "continue" => ret'.errors = <<>>)]_parserVars

\* One item was read and matched; the rule's second terminal is still on
\* the stack when parse returns.
C13_Witness ==
  /\ pc = "returned"
  /\ OnError(options) = "stop"
  /\ Len(lexed) = 1
  /\ pulled = 1
  /\ ret.stack = <<Str("b")>>
  /\ ret.errors = <<>>
  /\ ret.index = lexed[1].index

\* The run of the specification's example: S -> "a" "b", items a and x,
\* onError "stop", returned.
StopExample ==
  /\ pc = "returned"
  /\ rules = [kind |-> "terms", rhs |-> <<"a", "b">>]
  /\ LexedTokens = <<"a", "x">>
  /\ OnError(options) = "stop"

\* C14 as stated: the example returns the one error "Expected 'b' but got
\* 'x'." and the remaining stack ["b"].
C14_StopKeepsExpectedTerminal ==
  StopExample
    => /\ Len(ret.errors) = 1
       /\ ret.errors[1].message = "Expected 'b' but got 'x'."
       /\ ret.stack = <<Str("b")>>

\* C14, amended: the example returns that one error and an empty stack, the
\* expected "b" having been shifted off; in general the stack returned on a
\* stop is the stack at the mismatch without its front entry.
C14_StopReturnsStackAfterShift ==
  /\ [](StopExample
          => /\ Len(ret.errors) = 1
             /\ ret.errors[1].message = "Expected 'b' but got 'x'."
             /\ ret.stack = <<>>)
  /\ [][(OnError(options) = "stop" /\ (MeetsMismatch \/ MeetsEmbedded))
          => (pc' = "returned" /\ ret'.stack = Tail(stack) /\ stack' = Tail(stack))]_parserVars

C14_Witness ==
  /\ StopExample
  /\ options = [onError |-> "stop"]
  /\ ret.stack = <<>>
  /\ ret.errors[1].message = "Expected 'b' but got 'x'."
  /\ ret.errors[1].token = "x"

\* C15: under onError "continue" a mismatch uses up the offending stack
\* entry and the offending item: the entry is not put back, the loop goes on
\* to the next item with the entries that followed, and parse returns only
\* once the lexed sequence is exhausted.
C15_ContinueSkipsEntryAndItem ==
  /\ [][(OnError(options) = "continue" /\ MeetsMismatch)
          => /\ stack' = Tail(stack)
             /\ pc' = "for"
             /\ pulled' = pulled
             /\ lastIndex' = lexed[pulled].index
             /\ ret' = Undefined
             /\ thrown' = Undefined]_parserVars
  /\ []((OnError(options) = "continue" /\ pc = "returned")
          => pulled = Len(lexed))

\* S -> "a" "b" on the items x and b: x is spent on "a", b matches "b".
C15_Witness ==
  /\ OnError(options) = "continue"
  /\ pc = "returned"
  /\ rules = [kind |-> "terms", rhs |-> <<"a", "b">>]
  /\ LexedTokens = <<"x", "b">>
  /\ pulled = 2
  /\ ret.stack = <<>>
  /\ ret.index = lexed[2].index

\* C16: an item that finds the stack empty is ignored under every policy:
\* no rule runs, nothing is compared, no error is recorded or raised, the
\* stack stays empty and only lastIndex moves to the item's index.
C16_EmptyStackIgnoresItem ==
  [][(pc = "while" /\ stack = <<>>)
       => /\ pc' = "for"
          /\ stack' = <<>>
          /\ errors' = errors
          /\ result' = result
          /\ ret' = Undefined
          /\ thrown' = Undefined
          /\ console' = console
          /\ pulled' = pulled
          /\ lastIndex' = lexed[pulled].index]_parserVars

\* S -> "a" on the items a and x under stop: x arrives after the grammar
\* has been matched, and parse returns with no error and x's index.
C16_Witness ==
  /\ pc = "returned"
  /\ OnError(options) = "stop"
  /\ rules = [kind |-> "terms", rhs |-> <<"a">>]
  /\ LexedTokens = <<"a", "x">>
  /\ ret.stack = <<>>
  /\ ret.errors = <<>>
  /\ Len(ret.result) = 1
  /\ ret.index = lexed[2].index

\* The front of the stack is a symbol.
FrontIsSymbol ==
  /\ pc = "while"
  /\ stack # <<>>
  /\ "description" \in DOMAIN Head(stack)

\* The front of the stack is a terminal or an embedded ParseError.
FrontIsEntry ==
  /\ pc = "while"
  /\ stack # <<>>
  /\ "description" \notin DOMAIN Head(stack)

\* C17: the stack is used from the front.  A symbol at the front is
\* replaced by its rule's fragment, in the fragment's order and ahead of
\* the entries already there; the rule is called with the item held, and
\* the loop stays on that item.  A terminal or ParseError at the front is
\* removed and ends the work on the item, so that an item removes at most
\* one of them.
C17_LeftmostExpansion ==
  [][/\ (FrontIsSymbol /\ ~MeetsMissingRule)
          => /\ stack' = Rule(rules, Head(stack), lexed[pulled].tokens,
                              [index |-> lexed[pulled].index,
                               line |-> lexed[pulled].line,
                               inlineIndex |-> lexed[pulled].inlineIndex])
                           \o Tail(stack)
             /\ result' = IF rules.kind = "leftrec" THEN result
                           ELSE Append(result, [rule |-> Head(stack).description,
                                                token |-> lexed[pulled].tokens[1],
                                                index |-> lexed[pulled].index])
             /\ pc' = "while"
             /\ pulled' = pulled
     /\ FrontIsEntry => (stack' = Tail(stack) /\ pc' # "while")]_parserVars

\* S -> A B, then A -> "a": "a" stands ahead of B, both rules run on item 1.
C17_Witness ==
  /\ rules.kind = "nested"
  /\ pc = "while"
  /\ pulled = 1
  /\ stack = <<Str("a"), B>>
  /\ Len(result) = 2
  /\ result[2].rule = "A"
  /\ result[2].index = lexed[1].index

\* The symbol a rule puts at the front of its fragment for the item held,
\* undefined when the fragment is empty or begins with another entry.
LeftCorner(sym) ==
  IF ~HasRule(rules, sym) THEN Undefined
  ELSE LET fragment == Rule(rules, sym, item.tokens, position)
       IN  IF fragment # <<>> /\ TypeOf(fragment[1]) = "symbol"
           THEN fragment[1] ELSE Undefined

RECURSIVE LeftReaches(_, _, _)
\* from's chain of left corners comes to the symbol to within n expansions.
LeftReaches(from, to, n) ==
  /\ n > 0
  /\ LeftCorner(from) # Undefined
  /\ (LeftCorner(from) = to \/ LeftReaches(LeftCorner(from), to, n - 1))

\* The symbol at the front comes back to the front for the item held.
InLeftRecursion ==
  /\ pc = "while"
  /\ stack # <<>>
  /\ TypeOf(Head(stack)) = "symbol"
  /\ LeftReaches(Head(stack), Head(stack), Cardinality({S, A, B}))

\* C20: a call of parse comes to its end, returning or throwing, unless
\* the front of the stack gets into a cycle of expansions for one item;
\* once in such a cycle parse stays in it: it neither returns nor throws
\* and pulls no further item.
C20_TerminatesUnlessLeftRecursive ==
  /\ (pc \in {"for", "while"}) ~> (pc \in {"returned", "thrown"} \/ InLeftRecursion)
  /\ [][InLeftRecursion => (InLeftRecursion' /\ pulled' = pulled)]_vars

\* S -> "a" S matched the first item; on the second, "b", S -> A -> S.
C20_Witness ==
  /\ rules.kind = "leftrec"
  /\ InLeftRecursion
  /\ pulled = 2
  /\ lexed[1].tokens[1] = "a"
  /\ lexed[2].tokens[1] = "b"
  /\ stack = <<A>>
  /\ lastIndex = lexed[1].index

\* ------------------------------------------------ properties of the lexer

RECURSIVE LexAll(_, _, _)
\* The inner loop run over the whole of t.
LexAll(cfg, st, t) ==
  IF t = <<>> THEN st ELSE LexAll(cfg, LexChar(cfg, st, Head(t)), Tail(t))

\* What the lexer yields when t arrives as a single chunk.
SingleChunkItems(cfg, t) ==
  IF t = <<>> THEN <<>> ELSE ChunkFlush(LexAll(cfg, InitLocals, t)).out

\* This step reads the character c.
Reads(c) == lpc = "chunk" /\ text' = Append(text, c)

NoSeparatorIn(t) == \A k \in 1..Len(t) : t[k] \notin config.separatorRegex.matches

\* C6: the items yielded for a stream of non-empty chunks are those yielded
\* when the same text arrives as a single chunk.
C6_ChunkingInvisible ==
  lpc = "done" => out = SingleChunkItems(config, text)

\* C7: a stream without separator characters, in any number of chunks,
\* yields exactly one item, whose text is the whole stream and whose index
\* is the stream's length (stated here for a stream of at least one
\* character and with escaping off).
C7_NoSeparatorOneItem ==
  (lpc = "done" /\ text # <<>> /\ ~config.useEscape /\ NoSeparatorIn(text))
    => /\ Len(out) = 1
       /\ out[1].tokens = <<text>>
       /\ out[1].index = Len(text)

\* C8: with useQuote, a quote read outside quoting mode switches quoting
\* mode on, and a separator read in quoting mode is appended to the pending
\* token: nothing is yielded for it.
C8_QuoteEntersQuotingMode ==
  [][/\ (/\ config.useQuote
         /\ Reads("\"")
         /\ ~isQuoting
         /\ ~(config.useEscape /\ (isEscaping \/ EscapeChar(config) = "\"")))
          => isQuoting'
     /\ \A c \in config.separatorRegex.matches :
          (/\ config.useQuote
           /\ Reads(c)
           /\ isQuoting
           /\ ~(config.useEscape /\ (isEscaping \/ EscapeChar(config) = c)))
            => (token' = Append(token, c) /\ out' = out)]_lexerVars

\* C9: with useQuote and a separator matching "," and whitespace, the
\* single chunk "ab"c yields one item, with the text ab"c.
C9_QuotedExample ==
  (/\ lpc = "done"
   /\ nchunks = 1
   /\ config.useQuote
   /\ ~config.useEscape
   /\ config.separatorRegex = RegExp({",", " ", "\n"})
   /\ text = <<"\"", "a", "b", "\"", "c">>)
    => /\ Len(out) = 1
       /\ out[1].tokens = <<(<<"a", "b", "\"", "c">>)>>

\* C10: with useEscape, the character read right after an escape character
\* is appended to the pending token whatever it is, the escape character
\* itself is not appended, and neither yields an item; the single chunk
\* a\,b with "," a separator and "\" the escape yields the one item a,b.
C10_EscapedCharIsLiteral ==
  /\ [][\A c \in Chars \cup {"b", "c"} :
          (config.useEscape /\ Reads(c))
            => IF isEscaping
               THEN token' = Append(token, c) /\ ~isEscaping' /\ out' = out
               ELSE (c = (IF config.escapeChar = "" THEN "\\" ELSE config.escapeChar))
                      => (token' = token /\ isEscaping' /\ out' = out)]_lexerVars
  /\ []((/\ lpc = "done"
         /\ nchunks = 1
         /\ config.useEscape
         /\ config.escapeChar = ""
         /\ text = <<"a", "\\", ",", "b">>)
          => /\ Len(out) = 1
             /\ out[1].tokens = <<(<<"a", ",", "b">>)>>)

C10_Witness ==
  /\ lpc = "done"
  /\ nchunks = 1
  /\ config.useEscape
  /\ config.escapeChar = ""
  /\ "," \in config.separatorRegex.matches
  /\ text = <<"a", "\\", ",", "b">>
  /\ out = <<Yield(<<"a", ",", "b">>, 4, 0, 4)>>

\* The positions in t of the characters that match the newline pattern.
NewlinesIn(t) == {k \in 1..Len(t) : t[k] = "\n"}

\* The position in t of the last newline, 0 when there is none.
LastNewline(t) ==
  IF NewlinesIn(t) = {} THEN 0
  ELSE CHOOSE k \in NewlinesIn(t) : \A m \in NewlinesIn(t) : m <= k

\* C11: after any prefix of the stream, index is the number of characters
\* consumed, line the number of consumed newlines and inlineIndex the number
\* of characters consumed since the last newline, whichever branch handled
\* the characters and wherever the chunks end.
C11_CountersTrackPosition ==
  /\ index = Len(text)
  /\ line = Cardinality(NewlinesIn(text))
  /\ inlineIndex = Len(text) - LastNewline(text)

\* An escaped newline in the first chunk, a character in the second.
C11_Witness ==
  /\ config.useEscape
  /\ config.escapeChar = ""
  /\ text = <<"\\", "\n", "a">>
  /\ nchunks = 2
  /\ i = 1
  /\ index = 3
  /\ line = 1
  /\ inlineIndex = 1

\* The character c, read now, is met outside escaping and quoting.
PlainlyReads(c) ==
  /\ Reads(c)
  /\ ~(config.useEscape /\ isEscaping)
  /\ ~(config.useEscape
         /\ c = (IF config.escapeChar = "" THEN "\\" ELSE config.escapeChar))
  /\ ~(config.useQuote /\ isQuoting)

\* C18: every item yielded carries exactly one token, of non-empty text (so
\* an empty stream or one of separators only yields no empty token); a
\* separator met outside escaping and quoting is yielded as an item of its
\* own, right after one item for the pending token when there is one.
C18_ItemsAreNonEmpty ==
  /\ [](\A k \in 1..Len(out) :
          Len(out[k].tokens) = 1 /\ out[k].tokens[1] # <<>>)
  /\ [][\A c \in config.separatorRegex.matches :
          PlainlyReads(c)
            => /\ Len(out') = Len(out) + (IF token = <<>> THEN 1 ELSE 2)
               /\ \A k \in 1..Len(out) : out'[k] = out[k]
               /\ out'[Len(out')].tokens = <<(<<c>>)>>
               /\ token # <<>> => out'[Len(out') - 1].tokens = <<token>>
               /\ token' = <<>>]_lexerVars

\* The chunk "a,," has yielded a, then each of the two separators.
C18_Witness ==
  /\ text = <<"a", ",", ",">>
  /\ nchunks = 1
  /\ lpc = "done"
  /\ Len(out) = 3
  /\ out[1].tokens = <<(<<"a">>)>>
  /\ out[2].tokens = <<(<<",">>)>>
  /\ out[3].tokens = <<(<<",">>)>>

RECURSIVE Concat(_)
\* The token texts of the items, one after the other.
Concat(items) ==
  IF items = <<>> THEN <<>> ELSE Head(items).tokens[1] \o Concat(Tail(items))

RECURSIVE Unescape(_, _, _)
\* t without its escape characters: a character after an escape character
\* stays, whatever it is.
Unescape(cfg, t, escaping) ==
  IF t = <<>> THEN <<>>
  ELSE IF ~cfg.useEscape THEN t
  ELSE IF escaping THEN <<Head(t)>> \o Unescape(cfg, Tail(t), FALSE)
  ELSE IF Head(t) = (IF cfg.escapeChar = "" THEN "\\" ELSE cfg.escapeChar)
  THEN Unescape(cfg, Tail(t), TRUE)
  ELSE <<Head(t)>> \o Unescape(cfg, Tail(t), FALSE)

\* No more characters have been yielded than have been read.
EmittedAtMostOnce == Len(Concat(out)) <= Len(text)

\* A single chunk gives back its text, the escape characters apart.
SingleChunkRoundTrip ==
  (lpc = "done" /\ nchunks <= 1) => Concat(out) = Unescape(config, text, FALSE)

\* Within a single chunk the items' indices go up.
SingleChunkIncreasing ==
  nchunks <= 1 => \A k \in 1..(Len(out) - 1) : out[k].index < out[k + 1].index

\* A token flushed by a separator stands one character before it.
FlushedOneBefore ==
  \A c \in config.separatorRegex.matches :
    (PlainlyReads(c) /\ token # <<>>)
      => /\ out'[Len(out') - 1].index = out'[Len(out')].index - 1
         /\ out'[Len(out') - 1].inlineIndex = out'[Len(out')].inlineIndex - 1

\* The parts of C19 that speak of a single chunk.
C19_SingleChunkParts ==
  [](SingleChunkRoundTrip /\ SingleChunkIncreasing) /\ [][FlushedOneBefore]_lexerVars

\* C19: the lexer yields each character it reads at most once; a single
\* chunk gives back its text without the escape characters; a token flushed
\* by a separator has index and inlineIndex one less than the separator's
\* item; the indices of successive items go up.
C19_EachCharacterOnce ==
  /\ [](EmittedAtMostOnce /\ SingleChunkRoundTrip /\ SingleChunkIncreasing)
  /\ [][FlushedOneBefore]_lexerVars

====
